---- MODULE Spec2Model ----
(***************************************************************************)
(* OceanDataSync: the ingestion-and-normalization engine.                  *)
(*                                                                         *)
(*   pipeline.py   OceanDataPipeline.run        (orchestrator)             *)
(*   scrapper.py   DataScraper.scrape_*         (source retriever)         *)
(*   processor.py  DataProcessor.process_*      (normalizers)              *)
(*   processor.py  DataProcessor._save_chunked  (chunked writer)           *)
(*   loggger.py    PipelineLogger.log/save_logs (event sink)               *)
(*                                                                         *)
(* Specifications:                                                         *)
(*   Spec        one call of OceanDataPipeline.run                         *)
(*   SpecProc    one call of DataProcessor.process_all on any file list    *)
(*   SpecNorm    one call of one normalizer on any raw table               *)
(*   SpecWriter  calls of DataProcessor._save_chunked on any record set    *)
(***************************************************************************)
EXTENDS Integers, Sequences, FiniteSets, TLC

VARIABLES
    pc,               \* control position of the call being modelled
    \* ---- OceanDataPipeline / DataScraper / PipelineLogger state
    sources,          \* argument of run(): the override list, or NoOverride
    enabled,          \* settings["data_sources"][s]: "true", "false", "missing"
    todo,             \* sources still to be visited by the collection loop
    cur,              \* source whose scrape_* call is in progress ("" = none)
    raw_files,        \* run(): raw_files / scrape_all_sources(): all_files
    downloaded_files, \* DataScraper.downloaded_files
    raw_fs,           \* contents of config.raw_data_dir
    log_entries,      \* PipelineLogger.log_entries
    metrics,          \* OceanDataPipeline.metrics
    run_result,       \* outcome of run(): "none", "true", "false", "raised"
    saveCalls,        \* number of PipelineLogger.save_logs invocations
    flushed,          \* rows of the CSV log written by save_logs (-1: none)
    now,              \* the wall clock, in days
    \* ---- DataProcessor state
    max_rows,         \* DataProcessor.max_rows
    process_input,    \* process_all(): the raw_files argument
    pidx,             \* process_all(): index of the next raw file
    processed_files,  \* process_all(): the manifest being built
    out_fs,           \* contents of config.processed_data_dir
    \* ---- call frame of a direct normalizer / _save_chunked call
    df,               \* the DataFrame argument
    original_file,    \* the original_file argument
    source_prefix,    \* the source_prefix argument
    output_files,     \* the returned list
    raised,           \* whether the call raised
    calls,            \* number of completed _save_chunked calls
    \* ---- history (not program state)
    trace             \* sequence of steps taken, for ordering properties

vars == <<pc, sources, enabled, todo, cur, raw_files, downloaded_files, raw_fs,
          log_entries, metrics, run_result, saveCalls, flushed, now, max_rows,
          process_input, pidx, processed_files, out_fs, df, original_file,
          source_prefix, output_files, raised, calls, trace>>

runVars == <<sources, enabled, todo, cur, raw_files, downloaded_files, raw_fs,
             metrics, run_result, saveCalls, flushed>>
procVars == <<process_input, pidx, processed_files>>
frameVars == <<df, original_file, source_prefix, output_files, raised, calls>>

----------------------------------------------------------------------------
(* Bounds of the model *)

MaxRows == 5        \* longest record set handed to _save_chunked directly
MaxBound == 3       \* largest max_rows tried (the program's value is 9000)
MaxFail == 2        \* a to_csv call up to this one of a call may raise
MaxCalls == 2       \* direct _save_chunked calls with the same arguments
MaxNormRows == 2    \* longest raw table handed to a normalizer directly
MaxFiles == 2       \* longest raw file list handed to process_all directly
MaxSources == 2     \* longest override list handed to run()
MaxTicks == 1       \* midnights that may pass during one run
GridSide == 2       \* points per axis of the Copernicus grid (the program: 20)

----------------------------------------------------------------------------
(* Values, rows, events, paths *)

Min(a, b) == IF a < b THEN a ELSE b

RECURSIVE Concat(_)
Concat(ss) == IF Len(ss) = 0 THEN <<>> ELSE Head(ss) \o Concat(Tail(ss))

\* A cell of a table: a number, a missing value (NaN/None) or a non-numeric
\* string.
NumV(n) == [k |-> "num", v |-> n]
NullV == [k |-> "null", v |-> 0]
StrV == [k |-> "str", v |-> 0]

IsNull(c) == c.k = "null"

Event(source, operation, status, details) ==
    [source |-> source, operation |-> operation, status |-> status,
     details |-> details]

\* A file name is its stem (a sequence of words, possibly upper-case, followed
\* by the day numbers formatted into it) and its last extension; Path.stem
\* drops the extension.
FileName(words, stamp, ext) == [words |-> words, stamp |-> stamp, ext |-> ext]
Stem(name) == [words |-> name.words, stamp |-> name.stamp]

\* {i:03d}: decimal digits, left-padded with zeros to at least three.
RECURSIVE Digits(_)
Digits(i) == IF i < 10 THEN <<i>> ELSE Append(Digits(i \div 10), i % 10)
Fmt03d(i) ==
    LET d == Digits(i)
        pad == 3 - Len(d)
    IN IF pad <= 0 THEN d
       ELSE [j \in 1..3 |-> IF j <= pad THEN 0 ELSE d[j - pad]]

\* output_dir / f"{source_prefix}_{base_name}_processed.csv"            (part = <<>>)
\* output_dir / f"{source_prefix}_{base_name}_processed_part{i:03d}.csv"
OutPath(output_dir, prefix, base_name, part) ==
    [dir |-> output_dir, prefix |-> prefix, base |-> base_name,
     part |-> part]

\* A directory is a set of [path, rows] entries with one entry per path;
\* writing a path replaces its entry.
WriteFileAppends(fs, path, rows) ==
    {f \in fs : f.path # path}
    \cup {[path |-> path,
           rows |-> IF \E f \in fs : f.path = path
                    THEN (CHOOSE f \in fs : f.path = path).rows \o rows
                    ELSE rows]}

WriteFile(fs, path, rows) ==
    {f \in fs : f.path # path} \cup {[path |-> path, rows |-> rows]}
HasFile(fs, path) == \E f \in fs : f.path = path
ReadFile(fs, path) == (CHOOSE f \in fs : f.path = path).rows
DeleteFile(fs, path) == {f \in fs : f.path # path}
SeqRange(s) == {s[i] : i \in DOMAIN s}

RECURSIVE WriteAll(_, _)
WriteAll(fs, writes) ==
    IF Len(writes) = 0 THEN fs
    ELSE WriteAll(WriteFile(fs, Head(writes).path, Head(writes).rows),
                  Tail(writes))

----------------------------------------------------------------------------
(* Chunked writer: DataProcessor._save_chunked *)

\* np.array_split(df, k): k sections, the first n mod k of n div k + 1 rows,
\* the rest of n div k rows, cut at the cumulative sums of those sizes.
ArraySplitDropsExtras(s, k) ==
    LET each == Len(s) \div k
    IN [i \in 1..k |-> SubSeq(s, (i - 1) * each + 1, i * each)]

ArraySplitExtrasLast(s, k) ==
    LET each == Len(s) \div k
        extras == Len(s) % k
        div_point(i) == i * each + (IF i > k - extras THEN i - (k - extras)
                                    ELSE 0)
    IN [i \in 1..k |-> SubSeq(s, div_point(i - 1) + 1, div_point(i))]

ArraySplit(s, k) ==
    LET each == Len(s) \div k
        extras == Len(s) % k
        div_point(i) == i * each + Min(i, extras)
    IN [i \in 1..k |-> SubSeq(s, div_point(i - 1) + 1, div_point(i))]

\* num_chunks = (len(df) + self.max_rows - 1) // self.max_rows
NumChunksFloor(n, mr) == n \div mr

NumChunks(n, mr) == (n + mr - 1) \div mr

\* An empty record set treated as a failure of the call.
SaveChunkedRaisesOnEmpty(d, orig, output_dir, prefix, mr, failAt) ==
    [files |-> <<>>, writes |-> <<>>, raised |-> TRUE, events |-> <<>>]

\* The call's effect as a value: the list built in output_files, the writes
\* made to output_dir in order, the events logged, and whether a to_csv
\* raised.  failAt = j > 0 makes the j-th to_csv of the call raise (0: none).
SaveChunked(d, orig, output_dir, prefix, mr, failAt) ==
    IF Len(d) = 0
    THEN [files |-> <<>>, writes |-> <<>>, raised |-> FALSE,
          events |-> <<Event("PROCESSOR", "SAVE", "WARNING",
                             "Empty DataFrame, nothing to save")>>]
    ELSE
      LET base_name == Stem(orig) IN
      IF Len(d) <= mr
      THEN
        LET output_file == OutPath(output_dir, prefix, base_name, <<>>) IN
        IF failAt = 1
        THEN [files |-> <<>>, writes |-> <<>>, raised |-> TRUE,
              events |-> <<>>]
        ELSE [files |-> <<output_file>>,
              writes |-> <<[path |-> output_file, rows |-> d]>>,
              raised |-> FALSE,
              events |-> <<Event("PROCESSOR", "SAVE", "INFO", "Saved rows")>>]
      ELSE
        LET num_chunks == NumChunks(Len(d), mr)
            chunks == ArraySplit(d, num_chunks)
            written == IF failAt \in 1..num_chunks THEN failAt - 1
                       ELSE num_chunks
            output_file(i) == OutPath(output_dir, prefix, base_name, Fmt03d(i))
        IN [files |-> [i \in 1..written |-> output_file(i)],
            writes |-> [i \in 1..written |->
                          [path |-> output_file(i), rows |-> chunks[i]]],
            raised |-> written < num_chunks,
            events |-> <<Event("PROCESSOR", "SAVE", "INFO", "Splitting")>>
                       \o [i \in 1..written |->
                             Event("PROCESSOR", "SAVE", "INFO", "Saved part")]]


----------------------------------------------------------------------------
(* Substring tests on lower-cased names *)

\* str.lower() on the words of the model's vocabulary.
Lower(w) ==
    CASE w = "NOAA" -> "noaa"
      [] w = "LAT" -> "lat"
      [] w = "Argo" -> "argo"
      [] OTHER -> w

\* The classification keywords that occur as substrings of a lower-case word.
Subs(w) ==
    CASE w = "noaa" -> {"noaa"}
      [] w = "jpl" -> {"jpl"}
      [] w = "copernicus" -> {"copernicus"}
      [] w = "argo" -> {"argo"}
      [] w = "ghcnd" -> {"ghcnd"}
      [] w = "stations" -> {"stations"}
      [] w = "time" -> {"time"}
      [] w = "date" -> {"date"}
      [] w = "lat" -> {"lat"}
      [] w = "latitude" -> {"lat"}
      [] w = "longitude" -> {"lon"}
      [] w = "sst" -> {"sst"}
      [] w = "analysed_sst" -> {"sst", "analysed"}
      [] w = "temp" -> {"temp"}
      [] OTHER -> {}

\* `kw in col.lower()` for a column name (one word).
ColContains(col, kw) == kw \in Subs(Lower(col))

\* `kw in raw_file.name.lower()` for a file name (words joined by "_").
NameContains(name, kw) ==
    \E i \in DOMAIN name.words : kw \in Subs(Lower(name.words[i]))

----------------------------------------------------------------------------
(* Normalizers: DataProcessor.process_*_file up to the _save_chunked call. *)
(* A raw table is [cols: set of column names, rows: sequence of functions  *)
(* cols -> cell]; a DataFrame handed to the writer is the sequence of its  *)
(* rows, each a function from column name to cell.  Temperatures are in    *)
(* hundredths of a degree.  Raw tables have at most one column per         *)
(* canonical name.                                                         *)

KelvinOffset == 27315     \* 273.15
KelvinMean == 20000       \* 200

RequiredCols == <<"timestamp", "latitude", "longitude", "sea_surface_temperature">>

\* pd.read_csv raises EmptyDataError on a file with no columns.
ReadCsvFails(table) == table.cols = {}

\* pd.to_numeric(..., errors='coerce')
ToNumeric(c) == IF c.k = "num" THEN c ELSE NullV

\* pd.to_datetime(..., format='%Y%m%d%H%M%S', errors='coerce')
ToDatetime(c) == IF c.k = "num" THEN c ELSE NullV

\* result.dropna(subset=["latitude", "longitude"])
DropNaKeepsAll(rows) == rows

DropNa(rows) ==
    LET Keep(r) == ~IsNull(r["latitude"]) /\ ~IsNull(r["longitude"])
    IN SelectSeq(rows, Keep)

RECURSIVE SumCol(_, _)
SumCol(rows, col) ==
    IF Len(rows) = 0 THEN 0
    ELSE (IF Head(rows)[col].k = "num" THEN Head(rows)[col].v ELSE 0)
         + SumCol(Tail(rows), col)

CountCol(rows, col) ==
    Cardinality({i \in DOMAIN rows : rows[i][col].k = "num"})

\* Series.mean() raises TypeError on a column holding strings.
MeanRaises(rows, col) == \E i \in DOMAIN rows : rows[i][col].k = "str"

\* result[col].mean() > 200 (NaN cells are skipped; the mean of no value is
\* NaN, and NaN > 200 is False).
MeanExceeds(rows, col) ==
    /\ CountCol(rows, col) > 0
    /\ SumCol(rows, col) > KelvinMean * CountCol(rows, col)

\* result[col] = result[col] - 273.15
ToCelsius(c) == IF c.k = "num" THEN NumV(c.v - KelvinOffset) ELSE c

\* The canonical name the NOAA column loop gives a raw column ("" = none).
NoaaColumnName(col) ==
    IF ColContains(col, "time") THEN "timestamp"
    ELSE IF ColContains(col, "lat") THEN "latitude"
    ELSE IF ColContains(col, "lon") THEN "longitude"
    ELSE IF ColContains(col, "sst") \/ ColContains(col, "analysed")
         THEN "sea_surface_temperature"
    ELSE ""

\* The canonical name the Copernicus column loop gives a raw column.
CopernicusColumnName(col) ==
    IF ColContains(col, "time") \/ ColContains(col, "date") THEN "timestamp"
    ELSE IF ColContains(col, "lat") THEN "latitude"
    ELSE IF ColContains(col, "lon") THEN "longitude"
    ELSE IF \/ ColContains(col, "sst") \/ ColContains(col, "temp")
            \/ ColContains(col, "analysed")
         THEN "sea_surface_temperature"
    ELSE ""

\* df.rename(columns=column_mapping): raw columns the loop did not map keep
\* their own name.
Renamed(table, ColumnName(_)) ==
    LET newName(c) == IF ColumnName(c) = "" THEN c ELSE ColumnName(c)
        newCols == {newName(c) : c \in table.cols}
        old(n) == CHOOSE c \in table.cols : newName(c) = n
    IN [cols |-> newCols,
        rows |-> [i \in DOMAIN table.rows |->
                    [n \in newCols |-> table.rows[i][old(n)]]]]

\* process_noaa_file, lines 75-109: [raised, rows].
NormalizeNoaa(table) ==
    IF ReadCsvFails(table) THEN [raised |-> TRUE, rows |-> <<>>]
    ELSE
      LET t == Renamed(table, NoaaColumnName)
          available_cols == {c \in SeqRange(RequiredCols) : c \in t.cols}
          hasSst == "sea_surface_temperature" \in available_cols
          selected == [i \in DOMAIN t.rows |->
                         [c \in available_cols |-> t.rows[i][c]]]
          kelvin == hasSst /\ MeanExceeds(selected, "sea_surface_temperature")
          outCols == IF kelvin
                     THEN (available_cols \ {"sea_surface_temperature"})
                          \cup {"sst_celsius"}
                     ELSE available_cols
          converted ==
              [i \in DOMAIN selected |->
                 [c \in outCols |->
                    IF c = "sst_celsius"
                    THEN ToCelsius(selected[i]["sea_surface_temperature"])
                    ELSE selected[i][c]]]
      IN IF available_cols = {} THEN [raised |-> TRUE, rows |-> <<>>]
         ELSE IF hasSst /\ MeanRaises(selected, "sea_surface_temperature")
              THEN [raised |-> TRUE, rows |-> <<>>]
         ELSE IF ~({"latitude", "longitude"} \subseteq outCols)
              THEN [raised |-> TRUE, rows |-> <<>>]    \* dropna: KeyError
         ELSE [raised |-> FALSE, rows |-> DropNa(converted)]

\* process_copernicus_file, lines 131-164: [raised, rows].
NormalizeCopernicus(table) ==
    IF ReadCsvFails(table) THEN [raised |-> TRUE, rows |-> <<>>]
    ELSE
      LET t == Renamed(table, CopernicusColumnName)
          required == SeqRange(RequiredCols)
          selected == [i \in DOMAIN t.rows |->
                         [c \in required |->
                            IF c \in t.cols THEN t.rows[i][c] ELSE NullV]]
          kelvin == MeanExceeds(selected, "sea_surface_temperature")
          converted ==
              [i \in DOMAIN selected |->
                 [c \in required |->
                    IF kelvin /\ c = "sea_surface_temperature"
                    THEN ToCelsius(selected[i][c])
                    ELSE selected[i][c]]]
      IN IF MeanRaises(selected, "sea_surface_temperature")
         THEN [raised |-> TRUE, rows |-> <<>>]
         ELSE [raised |-> FALSE, rows |-> DropNa(converted)]

ArgoNames == {"file", "date", "latitude", "longitude", "ocean", "prof_type",
              "institution", "date_update"}

\* process_argo_file, lines 185-203: [raised, rows].
NormalizeArgo(table) ==
    LET coerced ==
            [i \in DOMAIN table.rows |->
               [timestamp |-> ToDatetime(table.rows[i]["date"]),
                latitude |-> ToNumeric(table.rows[i]["latitude"]),
                longitude |-> ToNumeric(table.rows[i]["longitude"]),
                ocean |-> table.rows[i]["ocean"],
                prof_type |-> table.rows[i]["prof_type"],
                institution |-> table.rows[i]["institution"]]]
        kept == DropNa(coerced)
    IN [raised |-> FALSE,
        rows |-> [i \in DOMAIN kept |->
                    [c \in DOMAIN kept[i] \cup {"temperature_celsius"} |->
                       IF c = "temperature_celsius" THEN NullV
                       ELSE kept[i][c]]]]

NceiNames == {"station_id", "latitude", "longitude", "elevation", "state",
              "name"}

\* process_ncei_file, lines 224-246: [raised, rows].  The timestamp column is
\* the processing date, not a field of the file.
NormalizeNcei(table, today) ==
    LET result ==
            [i \in DOMAIN table.rows |->
               [station_id |-> table.rows[i]["station_id"],
                timestamp |-> NumV(today),
                latitude |-> ToNumeric(table.rows[i]["latitude"]),
                longitude |-> ToNumeric(table.rows[i]["longitude"]),
                elevation_m |-> ToNumeric(table.rows[i]["elevation"]),
                country |-> table.rows[i]["state"],
                station_name |-> table.rows[i]["name"]]]
    IN [raised |-> FALSE, rows |-> DropNa(result)]


----------------------------------------------------------------------------
(* DataProcessor.process_*_file and DataProcessor.process_all *)

Tags == {"noaa", "copernicus", "argo", "ncei"}
TagOrder == <<"noaa", "copernicus", "argo", "ncei">>

\* config.noaa_dir, config.copernicus_dir, config.argo_dir, config.ncei_dir
OutDir(tag) == <<"processed", tag>>

Upper(tag) ==
    CASE tag = "noaa" -> "NOAA"
      [] tag = "copernicus" -> "COPERNICUS"
      [] tag = "argo" -> "ARGO"
      [] tag = "ncei" -> "NCEI"

\* PipelineLogger.log_data_preview: two INFO events unless the frame is empty.
LogDataPreview(rows, source) ==
    IF Len(rows) = 0 THEN <<>>
    ELSE <<Event(source, "DATA_PREVIEW", "INFO", "Shape"),
           Event(source, "DATA_PREVIEW", "INFO", "Columns")>>

\* The body shared by the four process_*_file methods: STARTED, the
\* normalizer, the preview, _save_chunked, then SUCCESS and the written
\* paths, or ERROR and [] when anything in the try block raised.
\* found = FALSE: filepath does not exist, so the read raises.
ProcessWith(tag, found, n, filepath, mr, failAt) ==
    LET started == <<Event(Upper(tag), "PROCESSING", "STARTED", "")>>
        error == <<Event(Upper(tag), "PROCESSING", "ERROR", "exception")>>
        s == SaveChunked(n.rows, filepath, OutDir(tag), tag, mr, failAt)
    IN IF ~found \/ n.raised
       THEN [files |-> <<>>, writes |-> <<>>, rows |-> <<>>, failed |-> TRUE,
             events |-> started \o error]
       ELSE IF s.raised
       THEN [files |-> <<>>, writes |-> s.writes, rows |-> n.rows,
             failed |-> TRUE,
             events |-> started \o LogDataPreview(n.rows, Upper(tag))
                        \o s.events \o error]
       ELSE [files |-> s.files, writes |-> s.writes, rows |-> n.rows,
             failed |-> FALSE,
             events |-> started \o LogDataPreview(n.rows, Upper(tag))
                        \o s.events
                        \o <<Event(Upper(tag), "PROCESSING", "SUCCESS",
                                   "Created file(s)")>>]

EmptyTable == [cols |-> {}, rows |-> <<>>, lines |-> 0]
TableAt(fs, filepath) ==
    IF HasFile(fs, filepath) THEN ReadFile(fs, filepath) ELSE EmptyTable

ProcessNoaaFile(fs, filepath, mr, failAt) ==
    ProcessWith("noaa", HasFile(fs, filepath),
                NormalizeNoaa(TableAt(fs, filepath)), filepath, mr, failAt)

ProcessCopernicusFile(fs, filepath, mr, failAt) ==
    ProcessWith("copernicus", HasFile(fs, filepath),
                NormalizeCopernicus(TableAt(fs, filepath)), filepath, mr, failAt)

ProcessArgoFile(fs, filepath, mr, failAt) ==
    ProcessWith("argo", HasFile(fs, filepath),
                NormalizeArgo(TableAt(fs, filepath)), filepath, mr, failAt)

ProcessNceiFile(fs, filepath, today, mr, failAt) ==
    ProcessWith("ncei", HasFile(fs, filepath),
                NormalizeNcei(TableAt(fs, filepath), today), filepath, mr,
                failAt)

\* The if/elif chain of process_all on filename = raw_file.name.lower().
ClassifyArgoFirst(raw_file) ==
    IF NameContains(raw_file, "argo") THEN "argo"
    ELSE IF NameContains(raw_file, "noaa") \/ NameContains(raw_file, "jpl")
         THEN "noaa"
    ELSE IF NameContains(raw_file, "copernicus") THEN "copernicus"
    ELSE IF NameContains(raw_file, "ghcnd") \/ NameContains(raw_file, "stations")
         THEN "ncei"
    ELSE "unknown"

Classify(raw_file) ==
    IF NameContains(raw_file, "noaa") \/ NameContains(raw_file, "jpl")
    THEN "noaa"
    ELSE IF NameContains(raw_file, "copernicus") THEN "copernicus"
    ELSE IF NameContains(raw_file, "argo") THEN "argo"
    ELSE IF NameContains(raw_file, "ghcnd") \/ NameContains(raw_file, "stations")
         THEN "ncei"
    ELSE "unknown"

\* One iteration of the for loop of process_all: [tag, files, writes, rows,
\* failed, events].
ProcessOne(fs, raw_file, today, mr, failAt) ==
    LET tag == Classify(raw_file)
        started == <<Event("PROCESSOR", "FILE_PROCESSING", "STARTED",
                           "Processing")>>
        r == CASE tag = "noaa" -> ProcessNoaaFile(fs, raw_file, mr, failAt)
               [] tag = "copernicus" ->
                      ProcessCopernicusFile(fs, raw_file, mr, failAt)
               [] tag = "argo" -> ProcessArgoFile(fs, raw_file, mr, failAt)
               [] tag = "ncei" ->
                      ProcessNceiFile(fs, raw_file, today, mr, failAt)
               [] OTHER ->
                      [files |-> <<>>, writes |-> <<>>, rows |-> <<>>,
                       failed |-> FALSE,
                       events |-> <<Event("PROCESSOR", "FILE_PROCESSING",
                                          "WARNING", "Unknown file type")>>]
    IN [tag |-> tag, files |-> r.files, writes |-> r.writes, rows |-> r.rows,
        failed |-> r.failed, events |-> started \o r.events]

EmptyManifest == [t \in Tags |-> <<>>]


----------------------------------------------------------------------------
(* Inputs: the raw tables, file names and record sets the calls are tried on *)

BoundedSeq(S, n) == UNION {[1..k -> S] : k \in 0..n}

CsvHeader == {"time", "latitude", "longitude", "analysed_sst"}

\* A raw row in the format of `cols`, from its time, lat, lon and
\* temperature cells; other columns hold text.
RawRow(cols, b) ==
    [c \in cols |->
       IF c \in {"time", "date"} THEN b.time
       ELSE IF c \in {"latitude", "LAT"} THEN b.lat
       ELSE IF c = "longitude" THEN b.lon
       ELSE IF c \in {"analysed_sst", "temp", "elevation"} THEN b.sst
       ELSE StrV]

\* lines: the file's line count (a header line for CSV, `extra` more lines).
MakeTable(cols, bs, header, extra) ==
    [cols |-> cols, rows |-> [i \in DOMAIN bs |-> RawRow(cols, bs[i])],
     lines |-> Len(bs) + header + extra]

LatCells == {NumV(-90), NumV(91), NullV, StrV}
LonCells == {NumV(180), NullV, StrV}
\* 290.00 and 15.00, and 200.00, the threshold of the unit correction.
SstCells == {NumV(29000), NumV(1500), NumV(KelvinMean)}
\* Rows with at most one coordinate that is not a valid number.
NormBaseRows ==
    {b \in [time : {NumV(1)}, lat : LatCells, lon : LonCells, sst : SstCells] :
        b.lat = NumV(-90) \/ b.lon = NumV(180)}

HeaderSets(tag) ==
    IF tag \in {"noaa", "copernicus"}
    THEN {CsvHeader, {"time", "LAT", "longitude"}, {"time", "analysed_sst"},
          {"date", "latitude", "longitude", "temp"}, {"depth"}, {}}
    ELSE IF tag = "argo" THEN {ArgoNames} ELSE {NceiNames}

NormTables(tag) ==
    {MakeTable(cols, bs, IF tag \in {"noaa", "copernicus"} THEN 1 ELSE 0, 0) :
        cols \in HeaderSets(tag), bs \in BoundedSeq(NormBaseRows, MaxNormRows)}

\* The raw file names the retrievers produce (see the retrievers below).
NoaaFile(start, end) == FileName(<<"noaa", "sst">>, <<start, end>>, "csv")
CopernicusFile(day) == FileName(<<"copernicus", "sst">>, <<day>>, "csv")
ArgoFile == FileName(<<"argo", "bio", "profile", "index">>, <<>>, "txt")
ArgoGzFile == FileName(<<"argo", "bio", "profile", "index", "txt">>, <<>>, "gz")
NceiFile == FileName(<<"ghcnd", "stations">>, <<>>, "txt")

RawNameOf(tag) ==
    CASE tag = "noaa" -> NoaaFile(1, 3)
      [] tag = "copernicus" -> CopernicusFile(3)
      [] tag = "argo" -> ArgoFile
      [] tag = "ncei" -> NceiFile

WriterRowSet ==
    {[timestamp |-> NumV(1), latitude |-> NumV(i), longitude |-> NumV(0)] :
        i \in 1..2}

----------------------------------------------------------------------------
(* Idle values of the state a specification does not use *)

NoMetrics == [start_time |-> -1, end_time |-> -1, raw_files |-> 0,
              processed_files |-> 0, errors |-> 0]

\* PipelineLogger.__init__ logs the start-up event.
InitLog == <<Event("SYSTEM", "INITIALIZATION", "STARTED",
                   "Pipeline logger initialized")>>

IdleRun ==
    /\ sources = <<>> /\ enabled = [t \in Tags |-> "true"] /\ todo = <<>>
    /\ cur = "" /\ raw_files = <<>> /\ downloaded_files = <<>>
    /\ metrics = NoMetrics /\ run_result = "none" /\ saveCalls = 0
    /\ flushed = -1

IdleProc == process_input = <<>> /\ pidx = 1 /\ processed_files = EmptyManifest

IdleFrame ==
    /\ df = <<>> /\ original_file = ArgoFile /\ source_prefix = ""
    /\ output_files = <<>> /\ raised = FALSE /\ calls = 0

----------------------------------------------------------------------------
(* SpecWriter: DataProcessor._save_chunked called directly *)

InitWriter ==
    /\ pc = "save_call"
    /\ IdleRun /\ IdleProc
    /\ raw_fs = {} /\ out_fs = {} /\ log_entries = InitLog /\ now = 1
    /\ trace = <<>>
    /\ max_rows \in 1..MaxBound
    /\ df \in BoundedSeq(WriterRowSet, MaxRows)
    /\ original_file = NoaaFile(1, 3)
    /\ source_prefix = "noaa"
    /\ output_files = <<>> /\ raised = FALSE /\ calls = 0

\* output_files = self._save_chunked(df, original_file, output_dir, prefix)
SaveChunkedCall ==
    /\ pc = "save_call"
    /\ \E failAt \in 0..MaxFail :
         \E s \in {SaveChunked(df, original_file, OutDir(source_prefix),
                                source_prefix, max_rows, failAt)} :
            /\ out_fs' = WriteAll(out_fs, s.writes)
            /\ log_entries' = log_entries \o s.events
            /\ output_files' = s.files
            /\ raised' = s.raised
            /\ trace' = Append(trace,
                   [op |-> "save", files |-> s.files, raised |-> s.raised,
                    fs |-> WriteAll(out_fs, s.writes)])
    /\ calls' = calls + 1
    /\ pc' = "save_ret"
    /\ UNCHANGED <<runVars, procVars, now, max_rows, df, original_file,
                   source_prefix>>

\* The caller invokes _save_chunked again with the same arguments.
SaveChunkedAgain ==
    /\ pc = "save_ret"
    /\ calls < MaxCalls
    /\ pc' = "save_call"
    /\ UNCHANGED <<runVars, procVars, frameVars, now, max_rows, out_fs,
                   log_entries, trace>>

NextWriter == SaveChunkedCall \/ SaveChunkedAgain

SpecWriter == InitWriter /\ [][NextWriter]_vars


----------------------------------------------------------------------------
(* SpecNorm: one process_*_file method called directly on any raw table *)

InitNorm ==
    /\ pc = "norm_call"
    /\ IdleRun /\ IdleProc
    /\ out_fs = {} /\ log_entries = InitLog /\ now = 1 /\ trace = <<>>
    /\ max_rows \in {1, MaxNormRows}
    /\ source_prefix \in Tags
    /\ original_file = RawNameOf(source_prefix)
    /\ \E table \in NormTables(source_prefix) :
         raw_fs = {[path |-> original_file, rows |-> table]}
    /\ df = <<>> /\ output_files = <<>> /\ raised = FALSE /\ calls = 0

\* The effect of a normalizer call r on the state of the caller.
NormalizerReturns(r) ==
    /\ out_fs' = WriteAll(out_fs, r.writes)
    /\ log_entries' = log_entries \o r.events
    /\ output_files' = r.files
    /\ df' = r.rows
    /\ raised' = r.failed
    /\ pc' = "norm_ret"
    /\ UNCHANGED <<runVars, procVars, now, max_rows, original_file,
                   source_prefix, calls, trace>>

ProcessNoaaFileCall ==
    /\ pc = "norm_call" /\ source_prefix = "noaa"
    /\ \E failAt \in 0..MaxFail :
         \E r \in {ProcessNoaaFile(raw_fs, original_file, max_rows,
                                           failAt)} :
            NormalizerReturns(r)

ProcessCopernicusFileCall ==
    /\ pc = "norm_call" /\ source_prefix = "copernicus"
    /\ \E failAt \in 0..MaxFail :
         \E r \in {ProcessCopernicusFile(raw_fs, original_file,
                                                 max_rows, failAt)} :
            NormalizerReturns(r)

ProcessArgoFileCall ==
    /\ pc = "norm_call" /\ source_prefix = "argo"
    /\ \E failAt \in 0..MaxFail :
         \E r \in {ProcessArgoFile(raw_fs, original_file, max_rows,
                                           failAt)} :
            NormalizerReturns(r)

ProcessNceiFileCall ==
    /\ pc = "norm_call" /\ source_prefix = "ncei"
    /\ \E failAt \in 0..MaxFail :
         \E r \in {ProcessNceiFile(raw_fs, original_file, now,
                                           max_rows, failAt)} :
            NormalizerReturns(r)

NextNorm ==
    \/ ProcessNoaaFileCall
    \/ ProcessCopernicusFileCall
    \/ ProcessArgoFileCall
    \/ ProcessNceiFileCall

SpecNorm == InitNorm /\ [][NextNorm]_vars

----------------------------------------------------------------------------
(* SpecProc: DataProcessor.process_all called directly on any file list *)

\* File names for process_all: every pair of the priority chain meets in
\* one name, in both word orders, with and without upper case.
ProcNames ==
    {FileName(<<"NOAA", "sst">>, <<>>, "csv"),
     FileName(<<"copernicus", "jpl">>, <<>>, "csv"),
     FileName(<<"argo", "copernicus">>, <<>>, "csv"),
     FileName(<<"stations", "Argo">>, <<>>, "txt"),
     FileName(<<"ghcnd", "noaa">>, <<>>, "txt"),
     FileName(<<"ghcnd">>, <<>>, "txt"),
     FileName(<<"ghcnd">>, <<>>, "csv"),
     FileName(<<"readme">>, <<>>, "txt")}

\* What a raw file holds: three rows of which the second has no latitude,
\* one row that has no latitude, or nothing at all (the file does not
\* exist).
ProcVariants == {"rows", "nocoords", "missing"}

GoodRow(i) == [time |-> NumV(1), lat |-> NumV(i), lon |-> NumV(180),
               sst |-> NumV(29000)]
NoLatRow == [time |-> NumV(1), lat |-> NullV, lon |-> NumV(180),
             sst |-> NumV(29000)]

\* The table of a variant, in the format of the normalizer that reads it.
VariantTable(tag, variant) ==
    LET bs == IF variant = "rows" THEN <<GoodRow(1), NoLatRow, GoodRow(2)>>
              ELSE <<NoLatRow>>
    IN CASE tag = "argo" -> MakeTable(ArgoNames, bs, 0, 0)
         [] tag = "ncei" -> MakeTable(NceiNames, bs, 0, 0)
         [] OTHER -> MakeTable(CsvHeader, bs, 1, 0)

InitProc ==
    /\ pc = "process"
    /\ IdleRun /\ IdleFrame
    /\ out_fs = {} /\ log_entries = InitLog /\ now = 1 /\ trace = <<>>
    /\ max_rows \in {1, MaxNormRows}
    /\ \E fs \in BoundedSeq(ProcNames \X ProcVariants, MaxFiles) :
         /\ \A i, j \in DOMAIN fs : fs[i][1] = fs[j][1] => fs[i][2] = fs[j][2]
         /\ process_input = [i \in DOMAIN fs |-> fs[i][1]]
         /\ raw_fs = {[path |-> fs[i][1],
                       rows |-> VariantTable(Classify(fs[i][1]), fs[i][2])] :
                         i \in {j \in DOMAIN fs : fs[j][2] # "missing"}}
    /\ pidx = 1
    /\ processed_files = EmptyManifest

\* The for loop of process_all goes on to the next raw file whether or not
\* the file raised: the except clause is inside the loop body.
NextFileStopsOnError(i, failed, n) == IF failed THEN n + 1 ELSE i + 1

NextFile(i, failed, n) == i + 1

\* One iteration of the for loop of process_all.
ProcessFileOverwrites ==
    /\ pc = "process"
    /\ pidx <= Len(process_input)
    /\ \E failAt \in 0..MaxFail :
         LET raw_file == process_input[pidx] IN
         \E r \in {ProcessOne(raw_fs, raw_file, now, max_rows, failAt)} :
            /\ processed_files' =
                  IF r.tag \in Tags
                  THEN [processed_files EXCEPT ![r.tag] = r.files]
                  ELSE processed_files
            /\ out_fs' = WriteAll(out_fs, r.writes)
            /\ log_entries' = log_entries \o r.events
            /\ pidx' = NextFile(pidx, r.failed, Len(process_input))
            /\ trace' = Append(trace,
                   [op |-> "process", src |-> r.tag, file |-> raw_file,
                    failed |-> r.failed, files |-> r.files,
                    written |-> Len(r.writes), events |-> r.events])
    /\ UNCHANGED <<pc, runVars, frameVars, now, max_rows, process_input>>

ProcessFile ==
    /\ pc = "process"
    /\ pidx <= Len(process_input)
    /\ \E failAt \in 0..MaxFail :
         LET raw_file == process_input[pidx] IN
         \E r \in {ProcessOne(raw_fs, raw_file, now, max_rows, failAt)} :
            /\ processed_files' =
                  IF r.tag \in Tags
                  THEN [processed_files EXCEPT ![r.tag] = @ \o r.files]
                  ELSE processed_files
            /\ out_fs' = WriteAll(out_fs, r.writes)
            /\ log_entries' = log_entries \o r.events
            /\ pidx' = NextFile(pidx, r.failed, Len(process_input))
            /\ trace' = Append(trace,
                   [op |-> "process", src |-> r.tag, file |-> raw_file,
                    failed |-> r.failed, files |-> r.files,
                    written |-> Len(r.writes), events |-> r.events])
    /\ UNCHANGED <<pc, runVars, frameVars, now, max_rows, process_input>>

\* return processed_files
ProcessAllReturn ==
    /\ pc = "process"
    /\ pidx > Len(process_input)
    /\ pc' = "returned"
    /\ UNCHANGED <<runVars, procVars, frameVars, now, max_rows, out_fs,
                   log_entries, trace>>

NextProc == ProcessFile \/ ProcessAllReturn

SpecProc == InitProc /\ [][NextProc]_vars

----------------------------------------------------------------------------
(* Source retriever: DataScraper.scrape_*                                  *)
(* Each operator gives the effect of the call after its STARTED event:     *)
(* [files (the returned list), fs (raw_data_dir afterwards), downloaded    *)
(* (appended to downloaded_files), events].  `outcome` is what the         *)
(* transfer does: "ok", "http" (a requests exception: timeout, connection  *)
(* error, non-2xx status), "bad_gzip" (the payload does not decompress),   *)
(* "io" (any other exception, e.g. the raw file cannot be written).        *)

DataLatencyDays == 3      \* timedelta(days=3)
NoaaDaysBack == 2         \* days_back default of scrape_noaa_sst
ArgoPreviewLines == 10    \* range(10)
NceiPreviewLines == 5     \* range(5)
Seed == 42                \* np.random.seed(42)

\* A retriever whose except clause returns [] without logging.
ScrapeFailedSilently(source, operation, request, detail) ==
    IF request THEN <<Event(source, "REQUEST", "INFO", "url")>> ELSE <<>>

\* except ...: self.logger.log(source, operation, "ERROR", ...); return []
ScrapeFailed(source, operation, request, detail) ==
    (IF request
     THEN <<Event(source, "REQUEST", "INFO", "url")>> ELSE <<>>)
    \o <<Event(source, operation, "ERROR", detail)>>

ScrapeNoaaSst(fs, outcome, payload, today) ==
    LET end_date == today - DataLatencyDays
        start_date == end_date - NoaaDaysBack
        filepath == NoaaFile(start_date, end_date)
        preview ==
            IF ReadCsvFails(payload)
            THEN <<Event("NOAA", "PREVIEW", "WARNING", "Cannot preview")>>
            ELSE LogDataPreview(payload.rows, "NOAA")
    IN CASE outcome = "http" ->
              [files |-> <<>>, fs |-> fs, downloaded |-> <<>>,
               events |-> ScrapeFailed("NOAA", "SST_SCRAPING", TRUE,
                                       "HTTP error")]
         [] outcome = "ok" ->
              [files |-> <<filepath>>, fs |-> WriteFile(fs, filepath, payload),
               downloaded |-> <<filepath>>,
               events |-> <<Event("NOAA", "REQUEST", "INFO", "url")>>
                          \o preview
                          \o <<Event("NOAA", "SST_SCRAPING", "SUCCESS",
                                     "Downloaded")>>]
         [] OTHER ->
              [files |-> <<>>, fs |-> fs, downloaded |-> <<>>,
               events |-> ScrapeFailed("NOAA", "SST_SCRAPING", TRUE,
                                       "exception")]

\* The i-th state of the generator after np.random.seed(42), and the value
\* round(273.15 + np.random.uniform(10, 25), 3) drawn from it (hundredths).
RECURSIVE RandomState(_)
RandomState(i) ==
    IF i = 0 THEN Seed ELSE (RandomState(i - 1) * 75 + 74) % 65537
SeededKelvin(i) == KelvinOffset + 1000 + (RandomState(i) % 1500)

\* np.linspace(lo, lo + 10, GridSide)[i], in whole degrees.
Linspace(lo, i) == lo + (10 * (i - 1)) \div (GridSide - 1)

\* The synthetic table: one row per grid point, latitudes outermost.
CopernicusSample(today) ==
    LET target_date == today - DataLatencyDays
        cell(i) == [time |-> NumV(target_date),
                    lat |-> NumV(Linspace(35, ((i - 1) \div GridSide) + 1)),
                    lon |-> NumV(Linspace(-15, ((i - 1) % GridSide) + 1)),
                    sst |-> NumV(SeededKelvin(i))]
    IN MakeTable(CsvHeader, [i \in 1..(GridSide * GridSide) |-> cell(i)], 1, 0)

ScrapeCopernicusSst(fs, outcome, today) ==
    LET target_date == today - DataLatencyDays
        filepath == CopernicusFile(target_date)
        sample == CopernicusSample(today)
    IN IF outcome = "ok"
       THEN [files |-> <<filepath>>, fs |-> WriteFile(fs, filepath, sample),
             downloaded |-> <<filepath>>,
             events |-> LogDataPreview(sample.rows, "COPERNICUS")
                        \o <<Event("COPERNICUS", "SST_SCRAPING", "SUCCESS",
                                   "Generated sample rows")>>]
       ELSE [files |-> <<>>, fs |-> fs, downloaded |-> <<>>,
             events |-> ScrapeFailed("COPERNICUS", "SST_SCRAPING", FALSE,
                                     "exception")]

\* The preview `[next(f) for _ in range(n)]` raises StopIteration on a file
\* of fewer than n lines; the method's `except Exception` catches it and
\* logs str(e), which is the empty string for StopIteration.
PreviewRaises(payload, n) == payload.lines < n

ScrapeArgoProfileIndex(fs, outcome, payload) ==
    LET compressed_path == ArgoGzFile
        decompressed_path == ArgoFile
        failed == ScrapeFailed("ARGO", "INDEX_SCRAPING", TRUE, "exception")
    IN CASE outcome = "ok" ->
              LET fs2 == DeleteFile(WriteFile(fs, decompressed_path, payload),
                                    compressed_path)
              IN IF PreviewRaises(payload, ArgoPreviewLines)
                 THEN [files |-> <<>>, fs |-> fs2,
                       downloaded |-> <<decompressed_path>>,
                       events |-> ScrapeFailed("ARGO", "INDEX_SCRAPING", TRUE,
                                               "")]
                 ELSE [files |-> <<decompressed_path>>, fs |-> fs2,
                       downloaded |-> <<decompressed_path>>,
                       events |-> <<Event("ARGO", "REQUEST", "INFO", "url"),
                                    Event("ARGO", "INDEX_SCRAPING", "INFO",
                                          "First line"),
                                    Event("ARGO", "INDEX_SCRAPING", "SUCCESS",
                                          "Downloaded")>>]
         [] outcome = "bad_gzip" ->
              \* the compressed file stays, the decompressed one is created
              \* empty before the copy raises
              [files |-> <<>>,
               fs |-> WriteFile(WriteFile(fs, compressed_path, payload),
                                decompressed_path, EmptyTable),
               downloaded |-> <<>>, events |-> failed]
         [] OTHER ->
              [files |-> <<>>, fs |-> fs, downloaded |-> <<>>,
               events |-> failed]

ScrapeNceiStations(fs, outcome, payload) ==
    LET filepath == NceiFile
        failed == ScrapeFailed("NCEI", "STATIONS_SCRAPING", TRUE, "exception")
    IN IF outcome = "ok"
       THEN IF PreviewRaises(payload, NceiPreviewLines)
            THEN [files |-> <<>>, fs |-> WriteFile(fs, filepath, payload),
                  downloaded |-> <<filepath>>,
                  events |-> ScrapeFailed("NCEI", "STATIONS_SCRAPING", TRUE,
                                          "")]
            ELSE [files |-> <<filepath>>,
                  fs |-> WriteFile(fs, filepath, payload),
                  downloaded |-> <<filepath>>,
                  events |-> <<Event("NCEI", "REQUEST", "INFO", "url"),
                               Event("NCEI", "STATIONS_SCRAPING", "INFO",
                                     "Sample"),
                               Event("NCEI", "STATIONS_SCRAPING", "SUCCESS",
                                     "Downloaded")>>]
       ELSE [files |-> <<>>, fs |-> fs, downloaded |-> <<>>,
             events |-> failed]

ScrapeOperation(tag) ==
    CASE tag = "noaa" -> "SST_SCRAPING"
      [] tag = "copernicus" -> "SST_SCRAPING"
      [] tag = "argo" -> "INDEX_SCRAPING"
      [] tag = "ncei" -> "STATIONS_SCRAPING"

----------------------------------------------------------------------------
(* Spec: one call of OceanDataPipeline.run *)

\* The override lists tried: every list of source names up to the bound
\* (repetitions included), and lists with an upper-case name and with a
\* name that is no source.
OverrideLists ==
    BoundedSeq(Tags, MaxSources)
    \cup {<<"NOAA">>, <<"NOAA", "noaa">>, <<"other">>, <<"other", "argo">>}

\* run(sources=None), the default: the argument is not a list.
NoOverride == <<"None">>

\* `if sources:` -- None and the empty list are both false.
Truthy(override) == override # NoOverride /\ override # <<>>

\* What the settings hold for a source's "enabled" key, and
\* sources_config.get(name, {}).get("enabled", True).
FlagValues == {"true", "false", "missing"}
SourceEnabled(flag) == flag # "false"

LowerSource(source) == IF source = "other" THEN source ELSE Lower(source)

FirstDay == DataLatencyDays + NoaaDaysBack + 1

ThreeRows == <<GoodRow(1), NoLatRow, GoodRow(2)>>

\* What a transfer may deliver: a table of three rows or an empty body for
\* NOAA; a short and a long index for Argo; a short and a long station
\* list for NCEI.
RunPayloads(tag) ==
    CASE tag = "noaa" -> {MakeTable(CsvHeader, ThreeRows, 1, 0), EmptyTable}
      [] tag = "argo" -> {MakeTable(ArgoNames, ThreeRows, 0, 0),
                          MakeTable(ArgoNames, ThreeRows, 0, 8)}
      [] tag = "ncei" -> {MakeTable(NceiNames, ThreeRows, 0, 0),
                          MakeTable(NceiNames, ThreeRows \o ThreeRows, 0, 0)}
      [] OTHER -> {EmptyTable}

Outcomes(tag) ==
    CASE tag = "noaa" -> {"ok", "http", "io"}
      [] tag = "copernicus" -> {"ok", "io"}
      [] tag = "argo" -> {"ok", "http", "bad_gzip"}
      [] tag = "ncei" -> {"ok", "http"}

\* The settings tried: with an override list of names, every source
\* disabled; with an empty override list, one source enabled; without an
\* override, every combination of enabled and disabled sources, and one
\* source without a flag beside three disabled ones.
Init ==
    /\ pc = "start"
    /\ IdleProc /\ IdleFrame
    /\ sources \in OverrideLists \cup {NoOverride}
    /\ enabled \in [Tags -> FlagValues]
    /\ Truthy(sources) => \A t \in Tags : enabled[t] = "false"
    /\ sources = <<>> =>
          /\ \A t \in Tags : enabled[t] # "missing"
          /\ Cardinality({t \in Tags : SourceEnabled(enabled[t])}) = 1
    /\ (\E t \in Tags : enabled[t] = "missing") =>
          Cardinality({t \in Tags : SourceEnabled(enabled[t])}) = 1
    /\ todo = <<>> /\ cur = "" /\ raw_files = <<>> /\ downloaded_files = <<>>
    /\ raw_fs = {} /\ out_fs = {}
    /\ log_entries = InitLog
    /\ metrics = NoMetrics
    /\ run_result = "none" /\ saveCalls = 0 /\ flushed = -1
    /\ now = FirstDay
    /\ max_rows = MaxNormRows
    /\ trace = <<>>

\* The sources the collection phase visits, in order: the override list when
\* one is given (`if sources:`), else scrape_all_sources' chain of enabled
\* checks.
ActiveSources(override, flags) ==
    IF Truthy(override) THEN override
    ELSE SelectSeq(TagOrder, LAMBDA t : SourceEnabled(flags[t]))

\* self.metrics["start_time"] = time.time(); PHASE 1 begins.
RunStart ==
    /\ pc = "start"
    /\ metrics' = [metrics EXCEPT !.start_time = now]
    /\ todo' = ActiveSources(sources, enabled)
    /\ pc' = "collect"
    /\ UNCHANGED <<sources, enabled, cur, raw_files, downloaded_files, raw_fs,
                   run_result, saveCalls, flushed, procVars, frameVars, now,
                   max_rows, out_fs, log_entries, trace>>

\* An override entry that matches none of the four names: no branch of the
\* if/elif chain is taken.
SkipUnknownSource ==
    /\ pc = "collect"
    /\ todo # <<>>
    /\ LowerSource(Head(todo)) \notin Tags
    /\ todo' = Tail(todo)
    /\ UNCHANGED <<pc, sources, enabled, cur, raw_files, downloaded_files,
                   raw_fs, metrics, run_result, saveCalls, flushed, procVars,
                   frameVars, now, max_rows, out_fs, log_entries, trace>>

\* The next scrape_* call begins: its first statement logs STARTED.
ScrapeBegin ==
    /\ pc = "collect"
    /\ todo # <<>>
    /\ LowerSource(Head(todo)) \in Tags
    /\ LET s == LowerSource(Head(todo))
       IN /\ cur' = s
          /\ log_entries' = Append(log_entries,
                 Event(Upper(s), ScrapeOperation(s), "STARTED", ""))
          /\ trace' = Append(trace, [op |-> "scrape_begin", src |-> s])
    /\ todo' = Tail(todo)
    /\ pc' = "scraping"
    /\ UNCHANGED <<sources, enabled, raw_files, downloaded_files, raw_fs,
                   metrics, run_result, saveCalls, flushed, procVars,
                   frameVars, now, max_rows, out_fs>>

\* The scrape_* call in progress returns r.files, which the caller appends
\* to raw_files (all_files.extend / raw_files.extend).
ScrapeReturnsOrAborts(r) ==
    /\ raw_files' = raw_files \o r.files
    /\ raw_fs' = r.fs
    /\ downloaded_files' = downloaded_files \o r.downloaded
    /\ log_entries' = log_entries \o r.events
    /\ trace' = Append(trace, [op |-> "scrape_end", src |-> cur,
                               files |-> r.files,
                               recorded |-> r.downloaded,
                               tables |-> [i \in DOMAIN r.files |->
                                             ReadFile(r.fs, r.files[i])]])
    /\ cur' = ""
    /\ pc' = "collect"
    /\ todo' = IF r.files = <<>> THEN <<>> ELSE todo
    /\ UNCHANGED <<sources, enabled, metrics, run_result, saveCalls,
                   flushed, procVars, frameVars, now, max_rows, out_fs>>

ScrapeReturns(r) ==
    /\ raw_files' = raw_files \o r.files
    /\ raw_fs' = r.fs
    /\ downloaded_files' = downloaded_files \o r.downloaded
    /\ log_entries' = log_entries \o r.events
    /\ trace' = Append(trace, [op |-> "scrape_end", src |-> cur,
                               files |-> r.files,
                               recorded |-> r.downloaded,
                               tables |-> [i \in DOMAIN r.files |->
                                             ReadFile(r.fs, r.files[i])]])
    /\ cur' = ""
    /\ pc' = "collect"
    /\ UNCHANGED <<sources, enabled, todo, metrics, run_result, saveCalls,
                   flushed, procVars, frameVars, now, max_rows, out_fs>>

ScrapeNoaaSstCall ==
    /\ pc = "scraping" /\ cur = "noaa"
    /\ \E outcome \in Outcomes("noaa"), payload \in RunPayloads("noaa") :
         \E r \in {ScrapeNoaaSst(raw_fs, outcome, payload, now)} :
            ScrapeReturns(r)

ScrapeCopernicusSstCall ==
    /\ pc = "scraping" /\ cur = "copernicus"
    /\ \E outcome \in Outcomes("copernicus") :
         \E r \in {ScrapeCopernicusSst(raw_fs, outcome, now)} :
            ScrapeReturns(r)

ScrapeArgoProfileIndexCall ==
    /\ pc = "scraping" /\ cur = "argo"
    /\ \E outcome \in Outcomes("argo"), payload \in RunPayloads("argo") :
         \E r \in {ScrapeArgoProfileIndex(raw_fs, outcome, payload)} :
            ScrapeReturns(r)

ScrapeNceiStationsCall ==
    /\ pc = "scraping" /\ cur = "ncei"
    /\ \E outcome \in Outcomes("ncei"), payload \in RunPayloads("ncei") :
         \E r \in {ScrapeNceiStations(raw_fs, outcome, payload)} :
            ScrapeReturns(r)

\* `if not raw_files:` -- the run is given up when nothing was collected.
RunAbortsNever(files) == FALSE

RunAborts(files) == files = <<>>

\* if not raw_files: log ERROR "No data collected"; return False
NoDataCollected ==
    /\ pc = "collect"
    /\ todo = <<>>
    /\ RunAborts(raw_files)
    /\ metrics' = [metrics EXCEPT !.raw_files = Len(raw_files)]
    /\ log_entries' = Append(log_entries,
           Event("PIPELINE", "DATA_COLLECTION", "ERROR", "No data collected"))
    /\ run_result' = "false"
    /\ pc' = "finally"
    /\ UNCHANGED <<sources, enabled, todo, cur, raw_files, downloaded_files,
                   raw_fs, saveCalls, flushed, procVars, frameVars, now,
                   max_rows, out_fs, trace>>

\* PHASE 2 begins: self.processor.process_all(raw_files) is entered.
StartProcessingEarly ==
    /\ pc = "collect"
    /\ ~RunAborts(raw_files)
    /\ metrics' = [metrics EXCEPT !.raw_files = Len(raw_files)]
    /\ process_input' = raw_files
    /\ pidx' = 1
    /\ processed_files' = EmptyManifest
    /\ pc' = "process"
    /\ UNCHANGED <<sources, enabled, todo, cur, raw_files, downloaded_files,
                   raw_fs, run_result, saveCalls, flushed, frameVars, now,
                   max_rows, out_fs, log_entries, trace>>

StartProcessing ==
    /\ pc = "collect"
    /\ todo = <<>>
    /\ ~RunAborts(raw_files)
    /\ metrics' = [metrics EXCEPT !.raw_files = Len(raw_files)]
    /\ process_input' = raw_files
    /\ pidx' = 1
    /\ processed_files' = EmptyManifest
    /\ pc' = "process"
    /\ UNCHANGED <<sources, enabled, todo, cur, raw_files, downloaded_files,
                   raw_fs, run_result, saveCalls, flushed, frameVars, now,
                   max_rows, out_fs, log_entries, trace>>

RECURSIVE TotalLen(_, _)
TotalLen(manifest, tags) ==
    IF tags = {} THEN 0
    ELSE LET t == CHOOSE x \in tags : TRUE
         IN Len(manifest[t]) + TotalLen(manifest, tags \ {t})

\* _generate_report computes end_time - start_time; end_time is still None
\* (it is set in the finally clause), so the subtraction raises TypeError.
GenerateReportRaises(m) == m.end_time = -1

\* process_all has returned: count the manifest, generate the report,
\* return True, or log the exception the report raised and return False.
ReportAndReturnEscapes ==
    /\ pc = "process"
    /\ pidx > Len(process_input)
    /\ LET m == [metrics EXCEPT
                    !.processed_files = TotalLen(processed_files, Tags)]
       IN /\ log_entries' = log_entries
          /\ metrics' = m
          /\ run_result' = IF GenerateReportRaises(m) THEN "raised" ELSE "true"
    /\ pc' = "finally"
    /\ UNCHANGED <<sources, enabled, todo, cur, raw_files, downloaded_files,
                   raw_fs, saveCalls, flushed, procVars, frameVars, now,
                   max_rows, out_fs, trace>>

ReportAndReturn ==
    /\ pc = "process"
    /\ pidx > Len(process_input)
    /\ LET m == [metrics EXCEPT
                    !.processed_files = TotalLen(processed_files, Tags)]
       IN IF GenerateReportRaises(m)
          THEN /\ log_entries' = Append(log_entries,
                      Event("PIPELINE", "EXECUTION", "ERROR", "TypeError"))
               /\ metrics' = [m EXCEPT !.errors = @ + 1]
               /\ run_result' = "false"
          ELSE /\ log_entries' = log_entries
               /\ metrics' = m
               /\ run_result' = "true"
    /\ pc' = "finally"
    /\ UNCHANGED <<sources, enabled, todo, cur, raw_files, downloaded_files,
                   raw_fs, saveCalls, flushed, procVars, frameVars, now,
                   max_rows, out_fs, trace>>

InterruptSkipsFinally ==
    /\ pc \in {"collect", "scraping", "process"}
    /\ run_result' = "raised"
    /\ cur' = ""
    /\ pc' = "done"
    /\ UNCHANGED <<sources, enabled, todo, raw_files, downloaded_files, raw_fs,
                   metrics, saveCalls, flushed, procVars, frameVars, now,
                   max_rows, out_fs, log_entries, trace>>

\* KeyboardInterrupt while the try block runs: no `except Exception` clause
\* catches it, so control goes to the finally clause and the exception
\* leaves run().
Interrupt ==
    /\ pc \in {"collect", "scraping", "process"}
    /\ run_result' = "raised"
    /\ cur' = ""
    /\ pc' = "finally"
    /\ trace' = Append(trace, [op |-> "interrupt"])
    /\ UNCHANGED <<sources, enabled, todo, raw_files, downloaded_files, raw_fs,
                   metrics, saveCalls, flushed, procVars, frameVars, now,
                   max_rows, out_fs, log_entries>>

\* PipelineLogger.save_logs: the entries are written to the CSV log, unless
\* writing raises, which save_logs itself catches.
SaveLogs(entries, ok) == IF ok THEN Len(entries) ELSE -1

\* finally: self.metrics["end_time"] = time.time(); self.logger.save_logs()
Finally ==
    /\ pc = "finally"
    /\ metrics' = [metrics EXCEPT !.end_time = now]
    /\ \E ok \in BOOLEAN : flushed' = SaveLogs(log_entries, ok)
    /\ saveCalls' = saveCalls + 1
    /\ trace' = Append(trace, [op |-> "save_logs", n |-> Len(log_entries)])
    /\ pc' = "done"
    /\ UNCHANGED <<sources, enabled, todo, cur, raw_files, downloaded_files,
                   raw_fs, run_result, procVars, frameVars, now, max_rows,
                   out_fs, log_entries>>

\* Midnight passes between two calls of a retriever.
Tick ==
    /\ pc = "collect"
    /\ now < FirstDay + MaxTicks
    /\ now' = now + 1
    /\ UNCHANGED <<pc, runVars, procVars, frameVars, max_rows, out_fs,
                   log_entries, trace>>

Next ==
    \/ RunStart
    \/ SkipUnknownSource
    \/ ScrapeBegin
    \/ ScrapeNoaaSstCall
    \/ ScrapeCopernicusSstCall
    \/ ScrapeArgoProfileIndexCall
    \/ ScrapeNceiStationsCall
    \/ NoDataCollected
    \/ StartProcessing
    \/ ProcessFile
    \/ ReportAndReturn
    \/ Interrupt
    \/ Finally

Spec == Init /\ [][Next]_vars

\* A scrape_* call is sequential code: once begun it runs to its return
\* unless a KeyboardInterrupt cuts it.
SpecLive ==
    /\ Spec
    /\ WF_vars(ScrapeNoaaSstCall)
    /\ WF_vars(ScrapeCopernicusSstCall)
    /\ WF_vars(ScrapeArgoProfileIndexCall)
    /\ WF_vars(ScrapeNceiStationsCall)

----------------------------------------------------------------------------
(* SpecScrape: the retrievers of DataScraper called directly, one after    *)
(* another, on the same day or on later days                               *)

InitScrape ==
    /\ pc = "collect"
    /\ IdleProc /\ IdleFrame
    /\ sources = NoOverride
    /\ enabled = [t \in Tags |-> "true"]
    /\ todo \in BoundedSeq(Tags, MaxCalls)
    /\ cur = "" /\ raw_files = <<>> /\ downloaded_files = <<>>
    /\ raw_fs = {} /\ out_fs = {}
    /\ log_entries = InitLog
    /\ metrics = NoMetrics
    /\ run_result = "none" /\ saveCalls = 0 /\ flushed = -1
    /\ now = FirstDay
    /\ max_rows = MaxNormRows
    /\ trace = <<>>

NextScrape ==
    \/ ScrapeBegin
    \/ ScrapeNoaaSstCall
    \/ ScrapeCopernicusSstCall
    \/ ScrapeArgoProfileIndexCall
    \/ ScrapeNceiStationsCall
    \/ Tick

SpecScrape == InitScrape /\ [][NextScrape]_vars

----------------------------------------------------------------------------
(* Properties of the chunked writer (SpecWriter) *)

\* The rows of the files of `files`, read back from `fs` and concatenated in
\* the order of the list.
ReadBack(fs, files) ==
    Concat([i \in DOMAIN files |-> ReadFile(fs, files[i])])

SavedOk == pc = "save_ret" /\ ~raised

\* C1: for n rows and bound b > 0, the written files, concatenated in the
\* order they are returned, are exactly the n input rows in their original
\* order, and the number of files is ceil(n/b): the least k with k*b >= n,
\* which is 0 when n = 0 and 1 when 0 < n <= b.
C1_RoundTripAndCount ==
    SavedOk =>
      LET n == Len(df)
          k == Len(output_files)
      IN /\ \A i \in DOMAIN output_files : HasFile(out_fs, output_files[i])
         /\ ReadBack(out_fs, output_files) = df
         /\ k * max_rows >= n
         /\ k > 0 => (k - 1) * max_rows < n
         /\ n = 0 => k = 0
         /\ (0 < n /\ n <= max_rows) => k = 1

\* C1 witness: a record set that does not divide evenly was split.
C1_Witness ==
    /\ SavedOk
    /\ Len(df) > max_rows
    /\ Len(df) % max_rows # 0
    /\ Len(output_files) >= 2

\* C2: every written file holds at most b rows, and no smaller number of
\* files could hold all n rows under that bound.
C2_BoundedAndMinimal ==
    SavedOk =>
      /\ \A i \in DOMAIN output_files :
           Len(ReadFile(out_fs, output_files[i])) <= max_rows
      /\ \A m \in 0..(Len(output_files) - 1) : m * max_rows < Len(df)

\* C2 witness: a split in which a file is filled up to the bound.
C2_Witness ==
    /\ SavedOk
    /\ Len(output_files) >= 2
    /\ \E i \in DOMAIN output_files :
         Len(ReadFile(out_fs, output_files[i])) = max_rows


----------------------------------------------------------------------------
(* Properties of the normalizers (SpecNorm) *)

\* The rows persisted in the processed-data directory.
PersistedRows == UNION {SeqRange(f.rows) : f \in out_fs}

\* The raw rows of the file the normalizer was called on.
RawRows == UNION {SeqRange(f.rows.rows) : f \in raw_fs}

InRange(c, lo, hi) == c.k = "num" /\ lo <= c.v /\ c.v <= hi

\* C10, first part: every persisted row has a latitude and a longitude that
\* are not null.
C10_NoNullCoordinate ==
    \A r \in PersistedRows :
       ~IsNull(r["latitude"]) /\ ~IsNull(r["longitude"])

\* C10 as claimed: for all four normalizers and every raw input, every
\* persisted row has a non-null latitude and longitude and no row with a
\* null or non-numeric coordinate is ever persisted.
C10_NumericCoordinates ==
    \A r \in PersistedRows :
       r["latitude"].k = "num" /\ r["longitude"].k = "num"


----------------------------------------------------------------------------
(* Properties of process_all (SpecProc) *)

ProcessSteps == SelectSeq(trace, LAMBDA e : e.op = "process")

CountEvents(events, Match(_)) ==
    Cardinality({i \in DOMAIN events : Match(events[i])})

IsError(e) == e.status = "ERROR"

\* The manifest process_all builds from `files` when no write fails.
RECURSIVE ManifestOf(_, _)
ManifestOf(files, acc) ==
    IF Len(files) = 0 THEN acc
    ELSE LET r == ProcessOne(raw_fs, Head(files), now, max_rows, 0)
         IN ManifestOf(Tail(files),
                       IF r.tag \in Tags
                       THEN [acc EXCEPT ![r.tag] = @ \o r.files]
                       ELSE acc)

\* C7: a normalization or write failure on one raw file is logged as an
\* ERROR event and adds no path to the manifest, every raw file after it is
\* still processed, and the manifest is the one process_all builds from the
\* list without the failing files.
C7_FailureIsolated ==
    pc = "returned" =>
      LET steps == ProcessSteps
          survivors == SelectSeq(steps, LAMBDA e : ~e.failed)
      IN /\ Len(steps) = Len(process_input)
         /\ \A i \in DOMAIN steps :
              /\ steps[i].file = process_input[i]
              /\ steps[i].failed =>
                   /\ CountEvents(steps[i].events, IsError) = 1
                   /\ steps[i].files = <<>>
         /\ CountEvents(log_entries, IsError)
              = Cardinality({i \in DOMAIN steps : steps[i].failed})
         /\ processed_files =
              ManifestOf([i \in DOMAIN survivors |-> survivors[i].file],
                         EmptyManifest)

\* C7 witness: the first file failed and a later file added paths.
C7_Witness ==
    /\ pc = "returned"
    /\ Len(ProcessSteps) >= 2
    /\ ProcessSteps[1].failed
    /\ ProcessSteps[2].files # <<>>

\* The keyword groups of the priority chain, highest first.
PriorityGroups == <<{"noaa", "jpl"}, {"copernicus"}, {"argo"},
                    {"ghcnd", "stations"}>>

Matches(name, g) == \E kw \in PriorityGroups[g] : NameContains(name, kw)

\* The tag of the highest-priority group with a keyword in the name.
PriorityTag(name) ==
    IF \E g \in 1..4 : Matches(name, g)
    THEN TagOrder[CHOOSE g \in 1..4 :
                     Matches(name, g) /\ \A h \in 1..(g - 1) : ~Matches(name, h)]
    ELSE "unknown"

IsNormalizerStart(e) == e.operation = "PROCESSING" /\ e.status = "STARTED"

\* C9: the file is handled by exactly one normalizer, the one of the
\* highest-priority keyword group (noaa/jpl > copernicus > argo >
\* ghcnd/stations) found in the lower-cased name, whatever the file holds;
\* a file matching no group is handled by no normalizer, gets a WARNING
\* event and adds nothing to the manifest.
C9_ClassificationPriority ==
    \A i \in DOMAIN ProcessSteps :
       LET e == ProcessSteps[i]
           tag == PriorityTag(e.file)
       IN IF tag = "unknown"
          THEN /\ CountEvents(e.events, IsNormalizerStart) = 0
               /\ CountEvents(e.events, LAMBDA x : x.status = "WARNING") = 1
               /\ e.files = <<>>
               /\ e.src = "unknown"
          ELSE /\ CountEvents(e.events, IsNormalizerStart) = 1
               /\ \E x \in SeqRange(e.events) :
                     IsNormalizerStart(x) /\ x.source = Upper(tag)
               /\ e.src = tag
               /\ \A j \in DOMAIN e.files : e.files[j].prefix = tag

\* C9 witness: a name with keywords of two groups was handled, and a name
\* with none was skipped.
C9_Witness ==
    /\ \E i \in DOMAIN ProcessSteps :
          /\ Cardinality({g \in 1..4 : Matches(ProcessSteps[i].file, g)}) = 2
          /\ ProcessSteps[i].files # <<>>
    /\ \E i \in DOMAIN ProcessSteps : ProcessSteps[i].src = "unknown"


----------------------------------------------------------------------------
(* Properties of run (Spec) *)

Steps(op) == SelectSeq(trace, LAMBDA e : e.op = op)

NoDataEvent ==
    Event("PIPELINE", "DATA_COLLECTION", "ERROR", "No data collected")

\* C3: when the collection phase yields no raw file, run logs the ERROR
\* event 'No data collected' and returns False, and the processing phase is
\* never entered: process_all is not invoked and no output file is written.
C3_NoDataIsTerminal ==
    /\ raw_files = <<>> =>
         /\ pc # "process"
         /\ Steps("process") = <<>>
         /\ out_fs = {}
    /\ (raw_files = <<>> /\ pc \in {"finally", "done"} /\ run_result # "raised")
         => /\ run_result = "false"
            /\ CountEvents(log_entries, LAMBDA e : e = NoDataEvent) = 1
            /\ log_entries[Len(log_entries)] = NoDataEvent

\* C3 witness: every retrieval of a run failed and the run returned False.
C3_Witness ==
    /\ pc = "done"
    /\ raw_files = <<>>
    /\ run_result = "false"
    /\ Len(Steps("scrape_end")) >= 2

\* C4: on every path through one run (a return, the zero-raw-files failure,
\* an exception caught inside run, an interrupt) save_logs is invoked
\* exactly once, as the last step of the run and after the last event of
\* the run was logged; every way out of the try block leads to it.
C4_FlushedOnceAtEnd ==
    /\ saveCalls = Len(Steps("save_logs"))
    /\ pc # "done" => saveCalls = 0
    /\ run_result # "none" <=> pc \in {"finally", "done"}
    /\ pc = "finally" => ENABLED Finally
    /\ pc = "done" =>
         /\ saveCalls = 1
         /\ trace[Len(trace)].op = "save_logs"
         /\ trace[Len(trace)].n = Len(log_entries)
         /\ flushed \in {-1, Len(log_entries)}

\* C4 witness: an interrupted run, after retrievals, has flushed its events.
C4_Witness ==
    /\ pc = "done"
    /\ run_result = "raised"
    /\ saveCalls = 1
    /\ Len(Steps("scrape_end")) >= 1
    /\ flushed = Len(log_entries)

\* The sources the collection phase is to call, in order.
Expected == SelectSeq([i \in DOMAIN ActiveSources(sources, enabled) |->
                          LowerSource(ActiveSources(sources, enabled)[i])],
                      LAMBDA t : t \in Tags)

CollectionComplete == pc = "process" \/ run_result \in {"true", "false"}

\* C5, in every state: a retrieval returns at most its own source's file,
\* raw_files is the concatenation of what the retrievals returned, and once
\* the collection phase is over every active source was attempted, whatever
\* failed before it.
C5_StateInv ==
    LET ends == Steps("scrape_end")
        begins == Steps("scrape_begin")
    IN /\ raw_files = Concat([i \in DOMAIN ends |-> ends[i].files])
       /\ \A i \in DOMAIN ends :
            /\ Len(ends[i].files) <= 1
            /\ \A j \in DOMAIN ends[i].files :
                 Classify(ends[i].files[j]) = ends[i].src
       /\ \A i \in DOMAIN begins : i <= Len(Expected) /\ begins[i].src = Expected[i]
       /\ CollectionComplete =>
            /\ Len(begins) = Len(Expected)
            /\ Len(ends) = Len(Expected)

\* C5, in every step: a retrieval that fails leaves raw_files and the raw
\* files of the other sources as they were.
C5_FailedStep ==
    (pc = "scraping" /\ pc' = "collect" /\ raw_files' = raw_files) =>
        \A f \in raw_fs : Classify(f.path) # cur => f \in raw_fs'

\* C5: a failure while retrieving one source yields an empty file list for
\* that source only; the retrievals of all other active sources are still
\* attempted and the raw files they return are unaffected, with and without
\* an override list.
C5_RetrievalFailureIsolated == []C5_StateInv /\ [][C5_FailedStep]_vars

\* C5 witness: the first retrieval failed and a later one returned a file.
C5_Witness ==
    LET ends == Steps("scrape_end")
    IN /\ Len(ends) >= 2
       /\ ends[1].files = <<>>
       /\ ends[2].files # <<>>
       /\ Truthy(sources)

\* C6 as claimed: in one run each source is retrieved at most once, for any
\* source list passed to run(), an override list naming a source more than
\* once included.
C6_AtMostOncePerSource ==
    \A t \in Tags :
       Cardinality({i \in DOMAIN trace :
                       trace[i].op = "scrape_begin" /\ trace[i].src = t}) <= 1

\* C8: every retrieval completes before the first file is processed, the
\* sources are retrieved one after another, and no retrieval step happens
\* after processing has started.
C8_TwoPhases ==
    /\ \A i, j \in DOMAIN trace :
         (trace[i].op = "process" /\ trace[j].op \in {"scrape_begin", "scrape_end"})
            => j < i
    /\ \A i \in DOMAIN trace :
         /\ trace[i].op = "scrape_begin" =>
              IF i = Len(trace) THEN pc \in {"scraping", "finally", "done"}
              ELSE trace[i + 1].op \in {"scrape_end", "interrupt"}
                   /\ (trace[i + 1].op = "scrape_end"
                         => trace[i + 1].src = trace[i].src)
         /\ trace[i].op = "scrape_end" =>
              i > 1 /\ trace[i - 1].op = "scrape_begin"
    /\ pc = "process" =>
         /\ todo = <<>> /\ cur = ""
         /\ Len(Steps("scrape_begin")) = Len(Steps("scrape_end"))
         /\ Len(Steps("scrape_end")) = Len(Expected)
    /\ pc = "scraping" <=> cur # ""

\* C8 witness: two sources were retrieved and a file was processed.
C8_Witness ==
    /\ Len(Steps("scrape_end")) >= 2
    /\ Len(Steps("process")) >= 2


----------------------------------------------------------------------------
(* Properties of the unit correction (SpecNorm) *)

\* The raw table the normalizer was called on.
RawTable == (CHOOSE f \in raw_fs : f.path = original_file).rows

\* The raw columns the column loop of normalizer `tag` names `canonical`.
RawColumns(tag, canonical) ==
    {c \in RawTable.cols :
        (IF tag = "noaa" THEN NoaaColumnName(c) ELSE CopernicusColumnName(c))
           = canonical}

\* The temperature cells of the raw rows that have both coordinates, in file
\* order; the normalizer was given a table with all three columns.
RawTemperatures(tag) ==
    LET lat == CHOOSE c \in RawColumns(tag, "latitude") : TRUE
        lon == CHOOSE c \in RawColumns(tag, "longitude") : TRUE
        sst == CHOOSE c \in RawColumns(tag, "sea_surface_temperature") : TRUE
        kept == SelectSeq(RawTable.rows,
                          LAMBDA r : ~IsNull(r[lat]) /\ ~IsNull(r[lon]))
    IN [i \in DOMAIN kept |-> kept[i][sst]]

\* The mean of the whole raw temperature column exceeds 200.
RawMeanOver200(tag) ==
    LET sst == CHOOSE c \in RawColumns(tag, "sea_surface_temperature") : TRUE
        total == SumCol(RawTable.rows, sst)
    IN Len(RawTable.rows) > 0 /\ total > 20000 * Len(RawTable.rows)

\* Normalizer `tag` returned without an error on a table that has a latitude,
\* a longitude and a temperature column.
Normalized(tag) ==
    /\ pc = "norm_ret" /\ source_prefix = tag /\ ~raised
    /\ RawColumns(tag, "latitude") # {}
    /\ RawColumns(tag, "longitude") # {}
    /\ RawColumns(tag, "sea_surface_temperature") # {}

\* The unit correction as normalizer `tag` applies it, the corrected column
\* being named `celsius`: over 200, every value is value - 273.15 under the
\* name `celsius`; otherwise every value is unchanged under the old name.
UnitCorrected(tag, celsius) ==
    Normalized(tag) =>
      LET raw == RawTemperatures(tag)
          name == IF RawMeanOver200(tag) THEN celsius
                  ELSE "sea_surface_temperature"
          other == {celsius, "sea_surface_temperature", "sst_celsius"} \ {name}
      IN /\ Len(df) = Len(raw)
         /\ \A i \in DOMAIN df :
              /\ name \in DOMAIN df[i]
              /\ other \cap DOMAIN df[i] = {}
              /\ df[i][name] = IF RawMeanOver200(tag)
                               THEN NumV(raw[i].v - 27315)
                               ELSE raw[i]

\* C11, what the NOAA normalizer does: the corrected column is renamed to
\* sst_celsius.
C11_NoaaRenames == UnitCorrected("noaa", "sst_celsius")

\* C11, what the Copernicus normalizer does: the values are corrected and
\* the column keeps the name sea_surface_temperature.
C11_CopernicusKeepsName == UnitCorrected("copernicus", "sea_surface_temperature")

\* C11 as claimed: in both the NOAA and the Copernicus normalizer, a
\* temperature column whose mean exceeds 200 has every value replaced by
\* value - 273.15 and is renamed to the Celsius-suffixed name; a column whose
\* mean is at most 200 (200 itself included) is left unchanged and keeps its
\* name.
C11_UnitCorrectionRenames ==
    /\ UnitCorrected("noaa", "sst_celsius")
    /\ UnitCorrected("copernicus", "sst_celsius")


----------------------------------------------------------------------------
(* Properties of run (Spec): errors and results *)

NumErrors(events) == CountEvents(events, IsError)

\* The component failures of the run so far: retrievals that returned no
\* file, raw files whose processing failed, the abort for want of raw files
\* and the report step that raised.
ComponentFailures ==
    Cardinality({i \in DOMAIN trace :
                    \/ trace[i].op = "scrape_end" /\ trace[i].files = <<>>
                    \/ trace[i].op = "process" /\ trace[i].failed})
    + (IF run_result = "false" THEN 1 ELSE 0)

\* C12: no error of a component (retrieval, normalization, write, report
\* generation) leaves run() as an exception: each one is recorded as one
\* ERROR event with a source, an operation and a detail string (the text of
\* the exception, which may be empty), run() ends with a boolean unless it
\* was interrupted from outside, and the abort for want of raw files gives
\* False.
C12_ErrorsContained ==
    /\ run_result = "raised" <=> Steps("interrupt") # <<>>
    /\ run_result \in {"none", "true", "false", "raised"}
    /\ (pc = "done" /\ Steps("interrupt") = <<>>) =>
          /\ run_result \in {"true", "false"}
          /\ raw_files = <<>> => run_result = "false"
    /\ NumErrors(log_entries) = ComponentFailures
    /\ \A i \in DOMAIN log_entries :
          IsError(log_entries[i]) =>
             /\ log_entries[i].source \in {"NOAA", "COPERNICUS", "ARGO",
                                           "NCEI", "PIPELINE"}
             /\ log_entries[i].operation # ""
             /\ "details" \in DOMAIN log_entries[i]

\* C12 witness: a retrieval failed, a raw file failed in processing and the
\* report step raised, and run() returned False.
C12_Witness ==
    /\ pc = "done"
    /\ run_result = "false"
    /\ \E i \in DOMAIN trace :
          trace[i].op = "scrape_end" /\ trace[i].files = <<>>
    /\ \E i \in DOMAIN trace : trace[i].op = "process" /\ trace[i].failed
    /\ NumErrors(log_entries) >= 3


----------------------------------------------------------------------------
(* Properties of the chunked writer (SpecWriter): repeated calls *)

\* The calls of _save_chunked so far in which no write raised.
GoodSaves == SelectSeq(trace, LAMBDA e : e.op = "save" /\ ~e.raised)

\* C13: two calls of _save_chunked with the same record set, bound, source
\* prefix and original file name return the same ordered list of file names,
\* cut at the same rows, and leave the output directory with the same files
\* holding the same rows after the second call as after the first.
C13_Idempotent ==
    \A i, j \in DOMAIN GoodSaves :
       /\ GoodSaves[i].files = GoodSaves[j].files
       /\ GoodSaves[i].fs = GoodSaves[j].fs
       /\ \A k \in DOMAIN GoodSaves[i].files :
            ReadFile(GoodSaves[i].fs, GoodSaves[i].files[k])
              = ReadFile(GoodSaves[j].fs, GoodSaves[j].files[k])

\* C13 witness: a record set was split into several files twice.
C13_Witness ==
    /\ Len(GoodSaves) >= 2
    /\ Len(GoodSaves[2].files) >= 2
    /\ pc = "save_ret"


----------------------------------------------------------------------------
(* Properties of process_all (SpecProc): empty results and the manifest *)

\* The raw file exists, is handled by a normalizer, and every row it holds
\* lacks a latitude, so that no row survives the coordinate filter.
EmptyAfterFilter(file) ==
    /\ Classify(file) \in Tags
    /\ HasFile(raw_fs, file)
    /\ \A i \in DOMAIN ReadFile(raw_fs, file).rows :
          IsNull(ReadFile(raw_fs, file).rows[i]["latitude"])

IsWarning(e) == e.status = "WARNING"

\* The paths the steps so far produced for tag t, in raw-file order.
PathsFor(t) ==
    LET mine == SelectSeq(ProcessSteps, LAMBDA e : e.src = t)
    IN Concat([i \in DOMAIN mine |-> mine[i].files])

\* C14: when no row of a raw file survives the coordinate filter, the
\* writer writes no file, returns no path and logs one WARNING event; the
\* file is not reported as an ERROR, the manifest gains nothing for its
\* source, and the next raw file is processed.
C14_EmptyResultIsWarning ==
    /\ pidx = Len(ProcessSteps) + 1
    /\ \A i \in DOMAIN ProcessSteps :
         LET e == ProcessSteps[i]
         IN EmptyAfterFilter(e.file) =>
              /\ e.written = 0
              /\ e.files = <<>>
              /\ ~e.failed
              /\ CountEvents(e.events, IsError) = 0
              /\ CountEvents(e.events, IsWarning) = 1
              /\ \E x \in SeqRange(e.events) :
                    /\ IsWarning(x)
                    /\ x.source = "PROCESSOR" /\ x.operation = "SAVE"
              /\ \E x \in SeqRange(e.events) :
                    x.operation = "PROCESSING" /\ x.status = "SUCCESS"
              /\ processed_files[e.src] = PathsFor(e.src)
              /\ pc = "returned" => Len(ProcessSteps) = Len(process_input)

\* C14 witness: a file of which no row survived was followed by a file that
\* was written out.
C14_Witness ==
    \E i \in DOMAIN ProcessSteps :
       /\ EmptyAfterFilter(ProcessSteps[i].file)
       /\ i < Len(ProcessSteps)
       /\ ProcessSteps[i + 1].files # <<>>


IsPrefix(a, b) == Len(a) <= Len(b) /\ SubSeq(b, 1, Len(a)) = a

\* C15, in every state: the manifest has exactly the four tags as keys; the
\* list of a tag is the concatenation, in raw-file order, of the paths the
\* writer returned for the raw files classified to that tag; every path is
\* a file of that tag's directory and appears under no other tag.
C15_ManifestInv ==
    /\ DOMAIN processed_files = {"noaa", "copernicus", "argo", "ncei"}
    /\ \A i \in DOMAIN ProcessSteps :
          /\ ProcessSteps[i].file = process_input[i]
          /\ ProcessSteps[i].src = Classify(process_input[i])
    /\ \A t \in DOMAIN processed_files :
          /\ processed_files[t] = PathsFor(t)
          /\ \A k \in DOMAIN processed_files[t] :
                /\ processed_files[t][k].prefix = t
                /\ processed_files[t][k].dir = OutDir(t)
                /\ HasFile(out_fs, processed_files[t][k])
                /\ \A u \in DOMAIN processed_files \ {t} :
                      processed_files[t][k] \notin SeqRange(processed_files[u])

\* C15, in every step: the entries already in the manifest stay where they
\* are.
C15_ManifestStep ==
    \A t \in DOMAIN processed_files :
       IsPrefix(processed_files[t], processed_files'[t])

\* C15: the manifest process_all returns maps exactly the four tags, each to
\* the paths written for the raw files of that tag in raw-file order, with
\* no path under a foreign tag and no entry removed or moved while later
\* files are processed.
C15_Manifest == []C15_ManifestInv /\ [][C15_ManifestStep]_vars

\* C15 witness: two raw files of one tag each added paths to its list.
C15_Witness ==
    /\ pc = "returned"
    /\ \E t \in Tags :
          /\ Len(SelectSeq(ProcessSteps,
                           LAMBDA e : e.src = t /\ e.files # <<>>)) >= 2
          /\ Len(processed_files[t]) >= 2


----------------------------------------------------------------------------
(* Properties of run (Spec): which sources are retrieved *)

\* The sources whose retriever was invoked, in the order of the calls.
Invoked ==
    [i \in DOMAIN Steps("scrape_begin") |-> Steps("scrape_begin")[i].src]

\* The sources a list names, whatever the case of the letters.
Named(list) == {Lower(list[i]) : i \in {j \in DOMAIN list : list[j] # "other"}}

EnabledInOrder == SelectSeq(TagOrder, LAMBDA t : enabled[t] # "false")

\* C16 as the code resolves the sources: a non-empty override list decides,
\* otherwise (no list, or an empty one) the enabled flags do.
C16_ResolutionAsCoded ==
    CollectionComplete =>
       IF sources # NoOverride /\ sources # <<>>
       THEN SeqRange(Invoked) = Named(sources)
       ELSE Invoked = EnabledInOrder

----------------------------------------------------------------------------
(* Properties of the retrievers (SpecScrape) *)

\* The calls of scrape_copernicus_sst so far that returned a file.
CopernicusCalls ==
    SelectSeq(trace, LAMBDA e : /\ e.op = "scrape_end"
                                /\ e.src = "copernicus"
                                /\ e.files # <<>>)

\* A table without its time column.
Untimed(table) ==
    [i \in DOMAIN table.rows |->
       [c \in DOMAIN table.rows[i] \ {"time"} |-> table.rows[i][c]]]

\* C17, the part the seed fixes: any two calls write the same grid points
\* with the same temperatures, whatever was drawn from the generator before.
C17_SameGridAndTemperatures ==
    \A i, j \in DOMAIN CopernicusCalls :
       Untimed(CopernicusCalls[i].tables[1]) = Untimed(CopernicusCalls[j].tables[1])

\* C17 as claimed: any two calls of scrape_copernicus_sst write a raw file
\* of the same name with the same rows, the same time field and the same
\* temperatures, whenever each of them runs.
C17_CopernicusDeterministic ==
    \A i, j \in DOMAIN CopernicusCalls :
       /\ CopernicusCalls[i].files = CopernicusCalls[j].files
       /\ CopernicusCalls[i].tables = CopernicusCalls[j].tables


----------------------------------------------------------------------------
(* Properties of the chunked writer (SpecWriter): the even split *)

\* The number of rows of the i-th of k partitions of n rows.
PartSize(n, k, i) == (n \div k) + (IF i <= n % k THEN 1 ELSE 0)

\* The number of rows before the i-th partition.
PartStart(n, k, i) == (i - 1) * (n \div k) + (IF i - 1 <= n % k THEN i - 1 ELSE n % k)

\* C18: when n > b the rows are split into k = ceil(n/b) contiguous
\* partitions, the first n mod k of floor(n/k) + 1 rows and the rest of
\* floor(n/k) rows; partition i is in the file with suffix _processed_partNNN
\* where NNN is i written with three digits, so the parts are numbered 1..k
\* and the file names of one call are distinct.
C18_EvenSplit ==
    (SavedOk /\ Len(df) > max_rows) =>
      LET n == Len(df)
          k == Len(output_files)
      IN /\ k * max_rows >= n /\ (k - 1) * max_rows < n
         /\ \A i \in 1..k :
              LET f == output_files[i]
                  rows == ReadFile(out_fs, f)
              IN /\ Len(rows) = PartSize(n, k, i)
                 /\ rows = SubSeq(df, PartStart(n, k, i) + 1,
                                  PartStart(n, k, i) + PartSize(n, k, i))
                 /\ Len(f.part) = 3
                 /\ 100 * f.part[1] + 10 * f.part[2] + f.part[3] = i
                 /\ \A d \in 1..3 : f.part[d] \in 0..9
                 /\ f.prefix = source_prefix
                 /\ f.base = Stem(original_file)
         /\ \A i, j \in 1..k : i # j => output_files[i] # output_files[j]
         /\ \A i, j \in 1..k :
              Len(ReadFile(out_fs, output_files[i]))
                - Len(ReadFile(out_fs, output_files[j])) \in {-1, 0, 1}

\* C18 witness: five rows under a bound of three were split unevenly.
C18_Witness ==
    /\ SavedOk
    /\ Len(df) > max_rows
    /\ Len(df) % Len(output_files) # 0
    /\ Len(output_files) >= 2
    /\ Len(ReadFile(out_fs, output_files[1]))
         > Len(ReadFile(out_fs, output_files[Len(output_files)]))


----------------------------------------------------------------------------
(* Properties of run (Spec): the result on the normal path *)

\* The collection phase yielded a raw file, process_all returned, and the
\* run ended without an interrupt.
NormalPathDone ==
    /\ pc = "done"
    /\ raw_files # <<>>
    /\ Steps("interrupt") = <<>>
    /\ Len(Steps("process")) = Len(raw_files)

\* C19 as claimed: whenever the collection phase yields at least one raw
\* file and process_all returns, run() completes the report step and returns
\* True, and the error counter of the metrics stays 0.
C19_NormalPathReturnsTrue ==
    NormalPathDone => run_result = "true" /\ metrics.errors = 0

\* C19, what the code does: on that path the report step raises, run() logs
\* PIPELINE/EXECUTION/ERROR, counts one error and returns False.
C19_NormalPathReturnsFalse ==
    NormalPathDone =>
       /\ run_result = "false"
       /\ metrics.errors = 1
       /\ log_entries[Len(log_entries)]
            = Event("PIPELINE", "EXECUTION", "ERROR", "TypeError")


----------------------------------------------------------------------------
(* Properties of the retrievers (SpecScrape): recorded and returned files *)

\* C20, what the code does: a file a retriever returns is the file it
\* recorded, but a recorded file is not always returned.
C20_ReturnedWereRecorded ==
    \A i \in DOMAIN Steps("scrape_end") :
       LET e == Steps("scrape_end")[i]
       IN e.files # <<>> => e.files = e.recorded

\* C20 as claimed: after any sequence of retrievals the files recorded in
\* downloaded_files are exactly the files returned to the caller, the Argo
\* and NCEI retrievers returning the one file they wrote and recorded and
\* logging SUCCESS for a payload of any length.
C20_RecordedAreReturned ==
    /\ downloaded_files = raw_files
    /\ \A i \in DOMAIN Steps("scrape_end") :
          LET e == Steps("scrape_end")[i]
          IN (e.src \in {"argo", "ncei"} /\ e.recorded # <<>>) =>
                /\ e.files = e.recorded
                /\ Len(e.files) = 1


----------------------------------------------------------------------------
(* Properties of the event list (SpecLive): the STARTED/terminal protocol  *)

\* The events of the protocol: STARTED, SUCCESS and ERROR of a retrieval or
\* of a per-file normalization.
IsProtocolEvent(e) ==
    /\ e.source \in {Upper(t) : t \in Tags}
    /\ e.operation \in {ScrapeOperation(t) : t \in Tags} \cup {"PROCESSING"}
    /\ e.status \in {"STARTED", "SUCCESS", "ERROR"}

Protocol(events) == SelectSeq(events, IsProtocolEvent)

IsTerminal(e) == e.status \in {"SUCCESS", "ERROR"}
IsStarted(e) == e.status = "STARTED"

SameOperation(a, b) == a.source = b.source /\ a.operation = b.operation

\* A retrieval has logged STARTED and has not logged its terminal event.
RetrievalOpen ==
    LET p == Protocol(log_entries)
    IN p # <<>> /\ IsStarted(p[Len(p)])

\* The calls made so far: retrievals begun, and files handed to a normalizer.
NormalizerCalls == SelectSeq(Steps("process"), LAMBDA e : e.src \in Tags)

C21_ProtocolInv ==
    LET p == Protocol(log_entries)
    IN /\ Len(SelectSeq(p, IsStarted))
            = Len(Steps("scrape_begin")) + Len(NormalizerCalls)
       /\ \A i \in DOMAIN p :
             /\ IsTerminal(p[i]) =>
                   /\ i > 1
                   /\ IsStarted(p[i - 1])
                   /\ SameOperation(p[i - 1], p[i])
             /\ (IsStarted(p[i]) /\ i < Len(p)) =>
                   /\ IsTerminal(p[i + 1])
                   /\ SameOperation(p[i], p[i + 1])
       /\ RetrievalOpen =>
             /\ Len(Steps("scrape_begin")) = Len(Steps("scrape_end")) + 1
             /\ pc = "scraping" \/ Steps("interrupt") # <<>>

C21_AppendOnly == IsPrefix(log_entries, log_entries')

\* C21: every retrieval and every per-file normalization logs STARTED for
\* its source and then exactly one terminal event, SUCCESS or ERROR, of the
\* same source and operation, before the next retrieval or normalization
\* starts; a retrieval that has started reaches its terminal event unless
\* the run is interrupted; logged events are never removed or changed.
C21_EventProtocol ==
    /\ []C21_ProtocolInv
    /\ [][C21_AppendOnly]_vars
    /\ RetrievalOpen ~> (~RetrievalOpen \/ Steps("interrupt") # <<>>)

\* Some event of the list has this status for a retrieval (or, with
\* retrieval = FALSE, for a normalization).
Logged(retrieval, status) ==
    \E i \in DOMAIN log_entries :
       /\ log_entries[i].status = status
       /\ IF retrieval
          THEN log_entries[i].operation \in {ScrapeOperation(t) : t \in Tags}
          ELSE log_entries[i].operation = "PROCESSING"

C21_Witness ==
    /\ pc = "done"
    /\ Steps("interrupt") = <<>>
    /\ Logged(TRUE, "SUCCESS") /\ Logged(TRUE, "ERROR")
    /\ Logged(FALSE, "SUCCESS") /\ Logged(FALSE, "ERROR")

----------------------------------------------------------------------------
(* Properties of process_all (SpecProc): uniqueness of the output paths *)

\* All paths of the manifest, tag after tag.
ManifestPaths == Concat([i \in DOMAIN TagOrder |-> processed_files[TagOrder[i]]])

PairwiseDistinct(paths) ==
    \A i, j \in DOMAIN paths : i # j => paths[i] # paths[j]

\* C22, what the code does: the paths written for one raw file are pairwise
\* distinct, and two raw files share an output path only if they are
\* classified to the same tag and have the same base name.
C22_DistinctStemsDistinctPaths ==
    \A i, j \in DOMAIN ProcessSteps :
       LET a == ProcessSteps[i]
           b == ProcessSteps[j]
       IN /\ PairwiseDistinct(a.files)
          /\ (i # j /\ SeqRange(a.files) \cap SeqRange(b.files) # {}) =>
                a.src = b.src /\ Stem(a.file) = Stem(b.file)

\* C22 as claimed: for every list of raw files, all paths of the manifest
\* are pairwise distinct and no two raw files of the list had the same
\* output file written for them.
C22_OutputPathsUnique ==
    /\ PairwiseDistinct(ManifestPaths)
    /\ \A i, j \in DOMAIN ProcessSteps :
          i # j => SeqRange(ProcessSteps[i].files)
                     \cap SeqRange(ProcessSteps[j].files) = {}

====
